---- MODULE Spec2Model ----
(***************************************************************************)
(* Sign-In-With-Solana provider of openauth-server.                        *)
(*                                                                         *)
(* GET /solana/authorize issues a SolanaSignInInput challenge, stores its  *)
(* nonce in the key-value store and hands the challenge to the browser in  *)
(* an encrypted cookie.  POST /solana/callback recovers the challenge from *)
(* the cookie, consumes the nonce, verifies the wallet's signature and the *)
(* message fields and calls ctx.success.                                   *)
(*                                                                         *)
(* Every `await` of a handler is a point where another request may run,    *)
(* so a handler is a sequence of steps and each request keeps its position.*)
(* Byte arrays are sequences; a SIWS message text is the sequence of its   *)
(* lines, each line a <<label, value>> pair.                               *)
(***************************************************************************)
EXTENDS Integers, Sequences, FiniteSets, TLC

VARIABLES config, now, store, cookies, issued, nextId, consumed, auth, req,
          client, keepAlive, decision

vars == <<config, now, store, cookies, issued, nextId, consumed, auth, req,
          client, keepAlive, decision>>

----------------------------------------------------------------------------
(* Bounds of the model *)

MaxTime == 2
MaxIssue == 2
MaxHits == 2

Hosts == {"h1", "h2"}
IssuerHosts == {"h1"}
Nonces == {"n1", "n2"}
Keys == {"K1", "K2"}
Req == {"r1", "r2"}

Undefined == "undefined"

(* An option that is not set is <<>>, one that is set to v is <<v>> *)
Unset == <<>>

(* The 600 seconds of the default validity window are one tick of the clock *)
DefaultNonceExpiry == 1

(* The configuration of index.ts: statement only; SOLANA_CHAIN_ID not set *)
DefaultConfig == [nonceExpiry |-> Unset, chainId |-> Unset, env |-> Unset]

(* Configurations of SolanaProvider and values of env.SOLANA_CHAIN_ID *)
Configs ==
    [nonceExpiry : {Unset, <<0>>, <<2>>},
     chainId : {Unset, <<"devnet">>},
     env : {Unset, <<"testnet">>, <<"localnet">>}]

(* config.nonceExpiry ?? 600, in clock ticks of the model *)
nonceExpiry ==
    IF config.nonceExpiry = Unset THEN DefaultNonceExpiry
                                  ELSE config.nonceExpiry[1]

----------------------------------------------------------------------------
(* Dates *)

IsoTable == <<"T0", "T1", "T2", "T3", "T4", "T5", "T6", "T7", "T8", "T9">>

(* Date.prototype.toISOString *)
toISOString(t) == IsoTable[t + 1]

(* new Date(isoString).getTime() *)
DateParse(s) == CHOOSE t \in 0..(Len(IsoTable) - 1) : IsoTable[t + 1] = s

----------------------------------------------------------------------------
(* Wallet accounts, signatures *)

(* account.address is the Base58 encoding of account.publicKey *)
Base58(pk) == IF pk = <<"K1">> THEN "A1" ELSE IF pk = <<"K2">> THEN "A2" ELSE "A?"

PublicKey(k) == <<k>>

Addresses == {Base58(PublicKey(k)) : k \in Keys}

(* Ed25519: the signature of the holder of key k over the bytes m *)
Sign(k, m) == <<k, m>>

(* 64 bytes that are the signature of nobody over nothing *)
BadSig == <<"K?", <<>>>>

(* Variant: any well-sized signature is accepted *)
Ed25519VerifyAny(sig, m, pk) ==
    /\ Len(sig) = 2
    /\ Len(pk) = 1

(* ed25519.verify(signature, message, publicKey) of @noble/curves, reached
   through verifyMessageSignature of @solana/wallet-standard-util *)
Ed25519Verify(sig, m, pk) ==
    /\ Len(sig) = 2
    /\ Len(pk) = 1
    /\ sig[1] = pk[1]
    /\ sig[2] = m

----------------------------------------------------------------------------
(* SIWS message text: createSignInMessageText / parseSignInMessage *)

FieldLabels == <<"statement", "URI", "Version", "Chain ID", "Nonce",
                 "Issued At", "Expiration Time", "Not Before">>

FieldNames == <<"statement", "uri", "version", "chainId", "nonce",
                "issuedAt", "expirationTime", "notBefore">>

LabelIndex(l) == CHOOSE i \in 1..Len(FieldLabels) : FieldLabels[i] = l

IsLabel(l) == \E i \in 1..Len(FieldLabels) : FieldLabels[i] = l

Get(rec, f) == IF f \in DOMAIN rec THEN rec[f] ELSE Undefined

RECURSIVE FieldLines(_, _)
FieldLines(m, i) ==
    IF i > Len(FieldLabels) THEN <<>>
    ELSE (IF Get(m, FieldNames[i]) # Undefined
             THEN << <<FieldLabels[i], m[FieldNames[i]]>> >>
             ELSE <<>>) \o FieldLines(m, i + 1)

(* createSignInMessageText(input) *)
createSignInMessageText(m) ==
    << <<"header", m.domain>>, <<"address", m.address>> >> \o FieldLines(m, 1)

RECURSIVE StripNewlines(_)
StripNewlines(t) ==
    IF Len(t) > 0 /\ t[Len(t)] = <<"newline", "">>
        THEN StripNewlines(SubSeq(t, 1, Len(t) - 1))
        ELSE t

WellFormed(t) ==
    /\ Len(t) >= 2
    /\ t[1][1] = "header"
    /\ t[2][1] = "address"
    /\ \A i \in 3..Len(t) : IsLabel(t[i][1])
    /\ \A i \in 4..Len(t) : LabelIndex(t[i - 1][1]) < LabelIndex(t[i][1])

LineValue(t, l) ==
    IF \E i \in 1..Len(t) : t[i][1] = l
        THEN t[CHOOSE i \in 1..Len(t) : t[i][1] = l][2]
        ELSE Undefined

NoMessage == [parsed |-> FALSE]

(* parseSignInMessage(bytes): the fields of the text, or null *)
parseSignInMessage(bytes) ==
    LET t == StripNewlines(bytes) IN
    IF ~WellFormed(t) THEN NoMessage
    ELSE [parsed |-> TRUE,
          domain |-> LineValue(t, "header"),
          address |-> LineValue(t, "address"),
          statement |-> LineValue(t, "statement"),
          uri |-> LineValue(t, "URI"),
          version |-> LineValue(t, "Version"),
          chainId |-> LineValue(t, "Chain ID"),
          nonce |-> LineValue(t, "Nonce"),
          issuedAt |-> LineValue(t, "Issued At"),
          expirationTime |-> LineValue(t, "Expiration Time"),
          notBefore |-> LineValue(t, "Not Before")]

(* Variant: the notBefore of the message is not compared *)
deriveSignInMessageLax(input, output) ==
    LET p == parseSignInMessage(output.signedMessage) IN
    IF ~p.parsed THEN <<>>
    ELSE IF \/ (Get(input, "domain") # Undefined /\ input.domain # p.domain)
            \/ (Get(input, "address") # Undefined /\ input.address # p.address)
            \/ Get(input, "statement") # p.statement
            \/ Get(input, "uri") # p.uri
            \/ Get(input, "version") # p.version
            \/ Get(input, "chainId") # p.chainId
            \/ Get(input, "nonce") # p.nonce
            \/ Get(input, "issuedAt") # p.issuedAt
            \/ Get(input, "expirationTime") # p.expirationTime
         THEN <<>>
         ELSE createSignInMessageText(p)

(* deriveSignInMessage(input, output): the canonical text of the parsed
   message when every field the server set agrees with it, else null *)
deriveSignInMessage(input, output) ==
    LET p == parseSignInMessage(output.signedMessage) IN
    IF ~p.parsed THEN <<>>
    ELSE IF \/ (Get(input, "domain") # Undefined /\ input.domain # p.domain)
            \/ (Get(input, "address") # Undefined /\ input.address # p.address)
            \/ Get(input, "statement") # p.statement
            \/ Get(input, "uri") # p.uri
            \/ Get(input, "version") # p.version
            \/ Get(input, "chainId") # p.chainId
            \/ Get(input, "nonce") # p.nonce
            \/ Get(input, "issuedAt") # p.issuedAt
            \/ Get(input, "expirationTime") # p.expirationTime
            \/ Get(input, "notBefore") # p.notBefore
         THEN <<>>
         ELSE createSignInMessageText(p)

(* verifySignIn(input, output) *)
verifySignIn(input, output) ==
    LET message == deriveSignInMessage(input, output) IN
    /\ message # <<>>
    /\ message = output.signedMessage
    /\ Ed25519Verify(output.signature, output.signedMessage,
                     output.account.publicKey)

----------------------------------------------------------------------------
(* What clients can send *)

(* The text a wallet renders for challenge c and account address a *)
WalletMessage(c, a) == createSignInMessageText([address |-> a] @@ c)

(* The SolanaSignInOutput of the wallet holding key k for the text m, as the
   wallet client posts it: address, publicKey, signature, signedMessage *)
Signed(k, m) ==
    [address |-> Base58(PublicKey(k)),
     publicKey |-> PublicKey(k),
     signature |-> Sign(k, m),
     signedMessage |-> m]

(* Native sign-in of challenge c by the wallet holding key k *)
Honest(c, k) == Signed(k, WalletMessage(c, Base58(PublicKey(k))))

Garbage == << <<"garbage", "">> >>

TrailingNewline(m) == Append(m, <<"newline", "">>)

Without(b, f) == [g \in DOMAIN b \ {f} |-> b[g]]

(* Texts a wallet can be made to sign for challenge c with key k: another
   account's address, an added Not Before line, a trailing newline *)
CraftedMessages(c, k) ==
    { WalletMessage(c, a) : a \in Addresses \ {Base58(PublicKey(k))} }
      \cup { WalletMessage([notBefore |-> toISOString(MaxTime)] @@ c,
                           Base58(PublicKey(k))) }
      \cup { TrailingNewline(WalletMessage(c, Base58(PublicKey(k)))) }

(* One field of a signed payload replaced before it is posted *)
Tampered(b) ==
    { [b EXCEPT !.address = a] : a \in (Addresses \cup {""}) \ {b.address} }
      \cup { [b EXCEPT !.publicKey = pk] :
                pk \in ({PublicKey(k) : k \in Keys} \cup {<<>>}) \ {b.publicKey} }
      \cup { [b EXCEPT !.signature = s] : s \in {BadSig, <<>>} }
      \cup { [b EXCEPT !.signedMessage = m] :
                m \in {Garbage, <<>>, TrailingNewline(b.signedMessage)} }
      \cup { Without(b, f) : f \in DOMAIN b }

(* The user's wallet holds K1, the adversary's holds K2 *)
UserKey == "K1"
AdversaryKey == "K2"

(* Requests a client holding the cookie of challenge c can post to the host
   that issued it: what the user's wallet signed for c, as signed or with
   one field replaced, and what the adversary's wallet signed for a text
   made from c *)
PostsFor(c) ==
    LET bodies == { Honest(c, UserKey) }
                    \cup Tampered(Honest(c, UserKey))
                    \cup { Signed(AdversaryKey, m) :
                             m \in CraftedMessages(c, AdversaryKey) }
    IN  { [body |-> b, jar |-> <<c>>, host |-> c.domain] : b \in bodies }

(* All requests clients can post once the challenges of S are issued: also
   the signed payload with the cookie of another challenge or none, or sent
   to another host name of the server *)
Posts(S) ==
    UNION { PostsFor(c) : c \in S }
      \cup { [body |-> Honest(c, UserKey), jar |-> <<d>>, host |-> c.domain] :
                c \in S, d \in S }
      \cup { [body |-> Honest(c, UserKey), jar |-> <<>>, host |-> c.domain] :
                c \in S }
      \cup { [body |-> Honest(c, UserKey), jar |-> <<c>>, host |-> h] :
                c \in S, h \in Hosts }

----------------------------------------------------------------------------
(* The browser: wallet names, messages, the page and the wallet client.
   A wallet name is the sequence of its characters, a message the sequence
   of its words. *)

Upper == <<"A", "B", "C", "D", "E", "F", "G", "H", "I", "J", "K", "L", "M",
           "N", "O", "P", "Q", "R", "S", "T", "U", "V", "W", "X", "Y", "Z">>

Lower == <<"a", "b", "c", "d", "e", "f", "g", "h", "i", "j", "k", "l", "m",
           "n", "o", "p", "q", "r", "s", "t", "u", "v", "w", "x", "y", "z">>

(* String.prototype.toLowerCase *)
toLowerCase(str) ==
    [i \in 1..Len(str) |->
        IF \E j \in 1..Len(Upper) : Upper[j] = str[i]
            THEN Lower[CHOOSE j \in 1..Len(Upper) : Upper[j] = str[i]]
            ELSE str[i]]

(* Variant: only a string that starts with the other one includes it *)
IncludesAsPrefix(str, sub) ==
    /\ Len(sub) <= Len(str)
    /\ SubSeq(str, 1, Len(sub)) = sub

(* String.prototype.includes *)
Includes(str, sub) ==
    \E i \in 0..(Len(str) - Len(sub)) : SubSeq(str, i + 1, i + Len(sub)) = sub

Phantom == <<"P", "h", "a", "n", "t", "o", "m">>
Solflare == <<"S", "o", "l", "f", "l", "a", "r", "e">>
Backpack == <<"B", "a", "c", "k", "p", "a", "c", "k">>

SUPPORTED_WALLETS == <<Phantom, Solflare, Backpack>>

CONNECTION_TIMEOUT_MS == 30000

MetaMask == <<"M", "e", "t", "a", "M", "a", "s", "k">>
MyPhantom == <<"M", "y", " ", "P", "H", "A", "N", "T", "O", "M">>
Glow == <<"G", "l", "o", "w">>

(* Names wallets register under *)
WalletNames == {Phantom, Solflare, Backpack, MetaMask, MyPhantom, Glow}

(* The wallets installed in the browser of the user *)
Installed == {Phantom, MetaMask}

(* The filter of getWallets and of onWalletsChange *)
Supported(connectors) ==
    {w \in connectors :
        \E i \in 1..Len(SUPPORTED_WALLETS) :
            Includes(toLowerCase(w), toLowerCase(SUPPORTED_WALLETS[i]))}

NoCalls == [connect |-> 0, sign |-> 0, post |-> 0]

(* The page as the server sent it, before any script event: the list shows
   'Loading wallets...', the error container is hidden *)
NewPage(connectors) ==
    [nav |-> TRUE, input |-> <<>>, connectors |-> connectors, ready |-> FALSE,
     list |-> "loading", wallets |-> {}, delivered |-> "none",
     disabled |-> FALSE, connecting |-> FALSE, error |-> <<>>,
     location |-> "page", pc |-> "idle", wallet |-> <<>>, features |-> {},
     pending |-> {}, late |-> {}, timers |-> {}, calls |-> NoCalls,
     output |-> <<>>, result |-> <<>>]

----------------------------------------------------------------------------
(* State *)

NoBody == [f \in {} |-> ""]

NoResp == [status |-> 0]

IdleReq == [pc |-> "idle", body |-> NoBody, jar |-> <<>>, host |-> "",
            found |-> 0, result |-> "none", resp |-> NoResp]

IdleAuth == [pc |-> "idle", input |-> <<>>]

----------------------------------------------------------------------------
(* The worker (index.ts): the KeepAlive object and the allow callback.
   A host name or URL is the sequence of its characters. *)

PING_INTERVAL_MS == 10000

(* The time that passes in one step of the clock of the KeepAlive object *)
TickMs == 5000

(* The KeepAlive object before its first request: no alarm, no handler
   running, nothing answered, no ping made. The alarm is <<>> when
   getAlarm() is null, and <<ms>>, the milliseconds from now to its time,
   when it is set *)
NewKeepAlive ==
    [alarm |-> <<>>, pc |-> "idle", response |-> <<>>, ping |-> <<>>,
     parity |-> FALSE]

Https ==
    <<"h", "t", "t", "p", "s", ":", "/", "/">>

Localhost ==
    <<"l", "o", "c", "a", "l", "h", "o", "s", "t">>

Loopback ==
    <<"1", "2", "7", ".", "0", ".", "0", ".", "1">>

AdlonymousTech ==
    <<"a", "d", "l", "o", "n", "y", "m", "o", "u", "s", ".", "t", "e", "c",
      "h">>

KernuxOrg ==
    <<"k", "e", "r", "n", "u", "x", ".", "o", "r", "g">>

WorkersDev ==
    <<"o", "p", "e", "n", "a", "u", "t", "h", "-", "s", "e", "r", "v", "e",
      "r", ".", "a", "d", "l", "o", "n", "y", "m", "o", "u", "s", ".", "w",
      "o", "r", "k", "e", "r", "s", ".", "d", "e", "v">>

(* allowedDomains *)
allowedDomains == <<AdlonymousTech, KernuxOrg, WorkersDev>>

(* Other host names clients send: a trusted name in another case, below a
   trusted domain, glued to other letters, before other labels, the parent
   of a trusted domain, a foreign name, with a dot at the end *)
OtherHosts ==
    [mixedLocalhost |->
       <<"L", "o", "c", "a", "l", "H", "o", "s", "t">>,
     mixedCase |->
       <<"A", "d", "l", "o", "n", "y", "m", "o", "u", "s", ".", "T", "E", "C",
         "H">>,
     subdomain |->
       <<"a", "p", "p", ".", "a", "d", "l", "o", "n", "y", "m", "o", "u", "s",
         ".", "t", "e", "c", "h">>,
     glued |->
       <<"e", "v", "i", "l", "a", "d", "l", "o", "n", "y", "m", "o", "u", "s",
         ".", "t", "e", "c", "h">>,
     prefix |->
       <<"a", "d", "l", "o", "n", "y", "m", "o", "u", "s", ".", "t", "e", "c",
         "h", ".", "e", "v", "i", "l", ".", "c", "o", "m">>,
     subdomain2 |->
       <<"a", "u", "t", "h", ".", "k", "e", "r", "n", "u", "x", ".", "o", "r",
         "g">>,
     glued2 |->
       <<"n", "o", "t", "k", "e", "r", "n", "u", "x", ".", "o", "r", "g">>,
     parent |->
       <<"a", "d", "l", "o", "n", "y", "m", "o", "u", "s", ".", "w", "o", "r",
         "k", "e", "r", "s", ".", "d", "e", "v">>,
     foreign |->
       <<"e", "v", "i", "l", ".", "c", "o", "m">>,
     localPrefix |->
       <<"l", "o", "c", "a", "l", "h", "o", "s", "t", ".", "e", "v", "i", "l",
         ".", "c", "o", "m">>,
     trailingDot |->
       <<"a", "d", "l", "o", "n", "y", "m", "o", "u", "s", ".", "t", "e", "c",
         "h", ".">>]

(* Host names of redirect URIs clients send *)
RedirectHosts ==
    {Localhost, Loopback, AdlonymousTech, KernuxOrg, WorkersDev}
      \cup {OtherHosts[f] : f \in DOMAIN OtherHosts}

(* Redirect URIs clients send: https://[userinfo@]host[:port]/path *)
Redirects ==
    [userinfo : {<<>>, AdlonymousTech},
     host : RedirectHosts,
     port : {<<>>, <<"8", "0", "8", "0">>},
     path : {<<"/", "c", "b">>, <<"/">> \o AdlonymousTech}]

(* The text of the redirect URI *)
RedirectURI(r) ==
    Https \o (IF r.userinfo = <<>> THEN <<>> ELSE r.userinfo \o <<"@">>)
          \o r.host
          \o (IF r.port = <<>> THEN <<>> ELSE <<":">> \o r.port)
          \o r.path

Ids == 1..MaxIssue

(* The state after construction, for the configuration cfg and a browser
   with the given wallets *)
InitPage(cfg, connectors) ==
    /\ config = cfg
    /\ now = 0
    /\ store = [n \in {} |-> 0]
    /\ cookies = {}
    /\ issued = {}
    /\ nextId = 1
    /\ consumed = {}
    /\ auth = IdleAuth
    /\ req = [r \in Req |-> IdleReq]
    /\ client = NewPage(connectors)
    /\ keepAlive = NewKeepAlive
    /\ decision = <<>>

InitWith(cfg) == InitPage(cfg, Installed)

Init == InitWith(DefaultConfig)

(* A record counts the lookups that found it, up to MaxHits *)
Hit(k) == IF k < MaxHits THEN k + 1 ELSE k

(* Variant: the removal empties the store *)
StorageRemoveAll(s, n) == [m \in {} |-> s[m]]

(* Variant: the removal deletes nothing *)
StorageRemoveNothing(s, n) == s

(* Storage.remove(ctx.storage, ["solana", "nonce", n]) *)
StorageRemove(s, n) == [m \in DOMAIN s \ {n} |-> s[m]]

(* Storage.set(ctx.storage, ["solana", "nonce", n], value, ttl) *)
StorageSet(s, n, v) == [m \in DOMAIN s \cup {n} |-> IF m = n THEN v ELSE s[m]]

----------------------------------------------------------------------------
(* The clock and the store's time-to-live *)

Tick ==
    /\ now < MaxTime
    /\ now' = now + 1
    /\ UNCHANGED <<config, keepAlive, decision, client, cookies, store, issued, nextId, consumed, auth, req>>

(* The store drops a record at some moment once its TTL has run out *)
StoreExpire(n) ==
    /\ n \in DOMAIN store
    /\ now >= store[n].ttlEnd
    /\ store' = StorageRemove(store, n)
    /\ UNCHANGED <<config, keepAlive, decision, client, cookies, now, issued, nextId, consumed, auth, req>>

----------------------------------------------------------------------------
(* GET /authorize *)

(* config.chainId ?? env.SOLANA_CHAIN_ID ?? "mainnet" *)
ChainId ==
    IF config.chainId # Unset THEN config.chainId[1]
    ELSE IF config.env # Unset THEN config.env[1]
    ELSE "mainnet"

Origin(host) == IF host = "h1" THEN "https://h1" ELSE "https://h2"

(* Variant: the domain is url.origin instead of url.host *)
SignInInputOrigin(host, nonce, t) ==
    [domain |-> Origin(host),
     statement |-> "Sign in with your Solana wallet",
     uri |-> Origin(host),
     version |-> "1",
     chainId |-> ChainId,
     nonce |-> nonce,
     issuedAt |-> toISOString(t),
     expirationTime |-> toISOString(t + nonceExpiry)]

SignInInput(host, nonce, t) ==
    [domain |-> host,
     statement |-> "Sign in with your Solana wallet",
     uri |-> Origin(host),
     version |-> "1",
     chainId |-> ChainId,
     nonce |-> nonce,
     issuedAt |-> toISOString(t),
     expirationTime |-> toISOString(t + nonceExpiry)]

(* The handler up to the completion of Storage.set *)
AuthorizeStore(host, nonce) ==
    /\ auth.pc = "idle"
    /\ nextId <= MaxIssue
    /\ LET input == SignInInput(host, nonce, now) IN
       /\ store' = StorageSet(store, nonce,
                      [issuedAt |-> input.issuedAt,
                       ttlEnd |-> now + nonceExpiry,
                       id |-> nextId,
                       hits |-> 0])
       /\ auth' = [pc |-> "stored", input |-> <<input>>]
    /\ nextId' = nextId + 1
    /\ UNCHANGED <<config, keepAlive, decision, client, cookies, now, issued, consumed, req>>

(* Variant: the rejection of Storage.set is swallowed and the handler goes on *)
AuthorizeStoreFailsSwallowed(host, nonce) ==
    /\ auth.pc = "idle"
    /\ auth' = [pc |-> "stored", input |-> <<SignInInput(host, nonce, now)>>]
    /\ UNCHANGED <<config, keepAlive, decision, client, cookies, now, store, issued, nextId, consumed, req>>

(* Storage.set rejects: the await throws and the rest of the handler is
   skipped *)
AuthorizeStoreFails(host, nonce) ==
    /\ auth.pc = "idle"
    /\ auth' = [pc |-> "failed", input |-> <<SignInInput(host, nonce, now)>>]
    /\ UNCHANGED <<config, keepAlive, decision, client, cookies, now, store, issued, nextId, consumed, req>>

(* The rejection leaves the handler: the framework answers with an error *)
AuthorizeError ==
    /\ auth.pc = "failed"
    /\ auth' = IdleAuth
    /\ UNCHANGED <<config, keepAlive, decision, client, cookies, now, store, issued, nextId, consumed, req>>

(* Variant: the cookie is set with the default window whatever is configured *)
AuthorizeRespondDefaultAge ==
    /\ auth.pc = "stored"
    /\ cookies' = cookies \cup {[name |-> "provider",
                                  maxAge |-> DefaultNonceExpiry,
                                  value |-> auth.input[1]]}
    /\ issued' = issued \cup {auth.input[1]}
    /\ auth' = IdleAuth
    /\ UNCHANGED <<config, keepAlive, decision, client, now, store, nextId, consumed, req>>

(* ctx.set of the cookie, config.ui and ctx.forward: the browser gets the
   cookie and the page *)
AuthorizeRespond ==
    /\ auth.pc = "stored"
    /\ cookies' = cookies \cup {[name |-> "provider",
                                  maxAge |-> nonceExpiry,
                                  value |-> auth.input[1]]}
    /\ issued' = issued \cup {auth.input[1]}
    /\ auth' = IdleAuth
    /\ UNCHANGED <<config, keepAlive, decision, client, now, store, nextId, consumed, req>>

----------------------------------------------------------------------------
(* POST /callback *)

Error(status, text) == [status |-> status, error |-> text]

RedirectUrl == "https://app/callback?code=1"

Truthy(body, f) ==
    /\ f \in DOMAIN body
    /\ f = "address" => body[f] # ""

(* The handler returns: its locals are gone, the response stays *)
Done(resp) == [IdleReq EXCEPT !.pc = "done", !.resp = resp]

Finish(r, resp) == req' = [req EXCEPT ![r] = Done(resp)]

(* Variant: the handler removes the nonce record of the cookie on entry *)
CallbackBeginConsuming(r, body, jar, host) ==
    /\ req[r].pc = "idle"
    /\ LET q == [IdleReq EXCEPT !.body = body, !.jar = jar, !.host = host] IN
       req' = [req EXCEPT ![r] =
          IF ~(/\ Truthy(body, "address") /\ Truthy(body, "publicKey")
               /\ Truthy(body, "signature") /\ Truthy(body, "signedMessage"))
             THEN Done(Error(400, "Missing required fields"))
          ELSE IF jar = <<>>
             THEN Done(Error(400, "Session expired. Please try again."))
          ELSE [q EXCEPT !.pc = "get"]]
    /\ store' = IF jar = <<>> THEN store ELSE StorageRemove(store, jar[1].nonce)
    /\ UNCHANGED <<config, keepAlive, decision, client, cookies, now, issued, nextId, consumed, auth>>

(* c.req.json(), the required-fields check and ctx.get of the cookie *)
CallbackBegin(r, body, jar, host) ==
    /\ req[r].pc = "idle"
    /\ LET q == [IdleReq EXCEPT !.body = body, !.jar = jar, !.host = host] IN
       req' = [req EXCEPT ![r] =
          IF ~(/\ Truthy(body, "address") /\ Truthy(body, "publicKey")
               /\ Truthy(body, "signature") /\ Truthy(body, "signedMessage"))
             THEN Done(Error(400, "Missing required fields"))
          ELSE IF jar = <<>>
             THEN Done(Error(400, "Session expired. Please try again."))
          ELSE [q EXCEPT !.pc = "get"]]
    /\ UNCHANGED <<config, keepAlive, decision, client, cookies, now, store, issued, nextId, consumed, auth>>

(* c.req.json() rejects on a body that is not JSON *)
CallbackBadJson(r) ==
    /\ req[r].pc = "idle"
    /\ Finish(r, Error(500, "Authentication failed"))
    /\ UNCHANGED <<config, keepAlive, decision, client, cookies, now, store, issued, nextId, consumed, auth>>

(* ctx.get of the cookie rejects: caught by the handler's catch *)
CallbackCookieThrows(r) ==
    /\ req[r].pc = "idle"
    /\ Finish(r, Error(500, "Authentication failed"))
    /\ UNCHANGED <<config, keepAlive, decision, client, cookies, now, store, issued, nextId, consumed, auth>>

(* Variant: the result of Storage.get is not checked *)
CallbackGetUnchecked(r) ==
    /\ req[r].pc = "get"
    /\ LET n == req[r].jar[1].nonce IN
       IF n \notin DOMAIN store
          THEN /\ req' = [req EXCEPT ![r].pc = "remove"]
               /\ UNCHANGED store
          ELSE /\ req' = [req EXCEPT ![r].pc = "remove",
                                     ![r].found = store[n].id]
               /\ store' = [store EXCEPT ![n].hits = Hit(@)]
    /\ UNCHANGED <<config, keepAlive, decision, client, cookies, now, issued, nextId, consumed, auth>>

(* Variant: the answer tells a nonce that was used from one that is unknown *)
CallbackGetTelling(r) ==
    /\ req[r].pc = "get"
    /\ LET n == req[r].jar[1].nonce IN
       IF n \notin DOMAIN store
          THEN /\ Finish(r, IF consumed # {}
                               THEN Error(400, "Nonce already used")
                               ELSE Error(400, "Invalid or expired nonce"))
               /\ UNCHANGED store
          ELSE /\ req' = [req EXCEPT ![r].pc = "remove",
                                     ![r].found = store[n].id]
               /\ store' = [store EXCEPT ![n].hits = Hit(@)]
    /\ UNCHANGED <<config, keepAlive, decision, client, cookies, now, issued, nextId, consumed, auth>>

(* Storage.get of the nonce record and the check of its result *)
CallbackGet(r) ==
    /\ req[r].pc = "get"
    /\ LET n == req[r].jar[1].nonce IN
       IF n \notin DOMAIN store
          THEN /\ Finish(r, Error(400, "Invalid or expired nonce"))
               /\ UNCHANGED store
          ELSE /\ req' = [req EXCEPT ![r].pc = "remove",
                                     ![r].found = store[n].id]
               /\ store' = [store EXCEPT ![n].hits = Hit(@)]
    /\ UNCHANGED <<config, keepAlive, decision, client, cookies, now, issued, nextId, consumed, auth>>

(* Variant: the record is not removed before the verification *)
CallbackRemoveLater(r) ==
    /\ req[r].pc = "remove"
    /\ req' = [req EXCEPT ![r].pc = "verify"]
    /\ UNCHANGED <<config, keepAlive, decision, client, cookies, now, store, issued, nextId, consumed, auth>>

(* Storage.remove of the nonce record; consumed keeps the identities of the
   records whose finder has completed the removal *)
CallbackRemove(r) ==
    /\ req[r].pc = "remove"
    /\ LET n == req[r].jar[1].nonce IN
       store' = StorageRemove(store, n)
    /\ consumed' = consumed \cup {req[r].found}
    /\ req' = [req EXCEPT ![r].pc = "verify"]
    /\ UNCHANGED <<config, keepAlive, decision, client, cookies, now, issued, nextId, auth>>

(* Variant: the catch puts the message of the exception in the response *)
CallbackStorageThrowsLeaking(r) ==
    /\ req[r].pc \in {"get", "remove"}
    /\ Finish(r, [status |-> 500, error |-> "Authentication failed",
                  detail |-> "KV error"])
    /\ UNCHANGED <<config, keepAlive, decision, client, cookies, now, store, issued, nextId, consumed, auth>>

(* Storage.get or Storage.remove rejects: caught by the handler's catch *)
CallbackStorageThrows(r) ==
    /\ req[r].pc \in {"get", "remove"}
    /\ Finish(r, Error(500, "Authentication failed"))
    /\ UNCHANGED <<config, keepAlive, decision, client, cookies, now, store, issued, nextId, consumed, auth>>

Output(q) ==
    [account |-> [address |-> q.body.address, publicKey |-> q.body.publicKey],
     signature |-> q.body.signature,
     signedMessage |-> q.body.signedMessage]

(* ed25519.verify throws on a signature or key of the wrong length *)
VerifyThrows(input, output) ==
    /\ deriveSignInMessage(input, output) # <<>>
    /\ deriveSignInMessage(input, output) = output.signedMessage
    /\ (Len(output.signature) # 2 \/ Len(output.account.publicKey) # 1)

(* Variant: any domain is accepted *)
DomainMismatchNever(parsed, host) == FALSE

(* parsed.domain !== new URL(c.req.url).host *)
DomainMismatch(parsed, host) == parsed.domain # host

(* Variant: the message is expired from its expiration time on *)
ExpiredInclusive(parsed, t) ==
    /\ parsed.expirationTime # Undefined
    /\ DateParse(parsed.expirationTime) <= t

(* parsed.expirationTime && new Date(parsed.expirationTime) < new Date() *)
Expired(parsed, t) ==
    /\ parsed.expirationTime # Undefined
    /\ DateParse(parsed.expirationTime) < t

(* parsed.notBefore && new Date(parsed.notBefore) > new Date() *)
NotYetValid(parsed, t) ==
    /\ parsed.notBefore # Undefined
    /\ DateParse(parsed.notBefore) > t

(* Variant: the message is parsed before the signature is verified *)
ChecksParseFirst(q, t) ==
    LET input == q.jar[1]
        output == Output(q)
        parsed == parseSignInMessage(output.signedMessage)
    IN  IF ~parsed.parsed
            THEN Error(400, "Invalid message format")
        ELSE IF VerifyThrows(input, output)
            THEN Error(500, "Authentication failed")
        ELSE IF ~verifySignIn(input, output)
            THEN Error(401, "Signature verification failed")
        ELSE IF DomainMismatch(parsed, q.host)
            THEN Error(401, "Domain mismatch")
        ELSE IF Expired(parsed, t)
            THEN Error(401, "Message expired")
        ELSE IF NotYetValid(parsed, t)
            THEN Error(401, "Message not yet valid")
        ELSE NoResp

(* The response of the checks of steps 5 and 6 at time t, NoResp when all
   of them pass *)
Checks(q, t) ==
    LET input == q.jar[1]
        output == Output(q)
        parsed == parseSignInMessage(output.signedMessage)
    IN  IF VerifyThrows(input, output)
            THEN Error(500, "Authentication failed")
        ELSE IF ~verifySignIn(input, output)
            THEN Error(401, "Signature verification failed")
        ELSE IF ~parsed.parsed
            THEN Error(400, "Invalid message format")
        ELSE IF DomainMismatch(parsed, q.host)
            THEN Error(401, "Domain mismatch")
        ELSE IF Expired(parsed, t)
            THEN Error(401, "Message expired")
        ELSE IF NotYetValid(parsed, t)
            THEN Error(401, "Message not yet valid")
        ELSE NoResp

(* verifySignIn, parseSignInMessage, the domain and time checks, and the
   call of ctx.success when they pass *)
CallbackVerify(r) ==
    /\ req[r].pc = "verify"
    /\ LET resp == Checks(req[r], now) IN
       req' = [req EXCEPT ![r] =
          IF resp = NoResp THEN [@ EXCEPT !.pc = "success"]
                           ELSE Done(resp)]
    /\ UNCHANGED <<config, keepAlive, decision, client, cookies, now, store, issued, nextId, consumed, auth>>

(* What ctx.success does: it resolves with a redirect response, resolves
   with a response without Location, or rejects *)
Completions == {"redirect", "plain", "throws"}

(* The promise of ctx.success settles *)
SuccessSettles(r, result) ==
    /\ req[r].pc = "success"
    /\ req' = [req EXCEPT ![r].pc = "respond", ![r].result = result]
    /\ UNCHANGED <<config, keepAlive, decision, client, cookies, now, store, issued, nextId, consumed, auth>>

(* The response built from the result of ctx.success: the Location header
   as JSON, the response as it is when it has none, the catch-all error *)
Response(result) ==
    IF result = "redirect"
        THEN [status |-> 200, success |-> TRUE, redirectUrl |-> RedirectUrl]
    ELSE IF result = "plain"
        THEN [status |-> 200, raw |-> TRUE]
    ELSE Error(500, "Authentication failed")

(* The handler resumes after ctx.success and answers *)
CallbackRespond(r) ==
    /\ req[r].pc = "respond"
    /\ Finish(r, Response(req[r].result))
    /\ UNCHANGED <<config, keepAlive, decision, client, cookies, now, store, issued, nextId, consumed, auth>>

(* The response is delivered and the request is over *)
CallbackEnd(r) ==
    /\ req[r].pc = "done"
    /\ req' = [req EXCEPT ![r] = IdleReq]
    /\ UNCHANGED <<config, keepAlive, decision, client, cookies, now, store, issued, nextId, consumed, auth>>

----------------------------------------------------------------------------
(* The page script (ui/solana.tsx) and the wallet client (wallet-client) *)

ConnectionTimedOut ==
    <<"Connection", "timed", "out", ".", "Please", "try", "again", ".">>
SignInTimedOut ==
    <<"Sign-in", "timed", "out", ".", "Please", "try", "again", ".">>
SigningTimedOut ==
    <<"Signing", "timed", "out", ".", "Please", "try", "again", ".">>
SignInCancelled == <<"Sign-in", "was", "cancelled">>
FailedToConnect == <<"Failed", "to", "connect", "wallet">>
WalletNotFound == <<"Wallet", "not", "found">>
NoSignInResult == <<"Wallet", "returned", "no", "sign-in", "result">>
NoSigningSupport == <<"Wallet", "does", "not", "support", "signing">>
FailedToFetch == <<"Failed", "to", "fetch">>

(* copy.error_failed *)
ErrorFailed == <<"Authentication", "failed">>

(* Messages of the errors wallets throw when the user refuses the request *)
UserRejections ==
    {<<"User", "rejected", "the", "request", ".">>,
     <<"User", "canceled", "the", "request">>,
     <<"Approval", "Denied">>}

(* Messages a wallet rejects a call with: the user refused, or it failed *)
WalletMessages ==
    UserRejections \cup {<<"Unexpected", "error">>, <<>>}

Failure(message) == [success |-> FALSE, error |-> message]

Success(url) == [success |-> TRUE, redirectUrl |-> url]

(* The catch of connectAndSign *)
Caught(errorMessage) ==
    IF \/ Includes(errorMessage, <<"rejected">>)
       \/ Includes(errorMessage, <<"cancelled">>)
       \/ Includes(errorMessage, <<"denied">>)
       \/ Includes(errorMessage, <<"User", "rejected">>)
        THEN Failure(SignInCancelled)
    ELSE IF Includes(errorMessage, <<"timed", "out">>)
        THEN Failure(errorMessage)
    ELSE Failure(errorMessage)

(* renderWallets(wallets): the list is drawn anew, with fresh buttons *)
Render(cl, wallets) ==
    [cl EXCEPT !.wallets = wallets,
               !.list = IF wallets = {} THEN "none" ELSE "wallets",
               !.disabled = FALSE,
               !.connecting = FALSE]

(* connectAndSign returns result and handleWalletClick goes on: it
   navigates, or shows the error and enables the buttons again; timers still
   armed reject promises nobody waits for *)
Return(cl, result) ==
    LET done == [cl EXCEPT !.pc = "idle", !.result = <<result>>,
                           !.pending = {}, !.timers = {}]
    IN  IF result.success
            THEN [done EXCEPT !.location = result.redirectUrl]
            ELSE [done EXCEPT !.error = <<IF result.error # <<>>
                                             THEN result.error
                                             ELSE ErrorFailed>>,
                              !.disabled = FALSE,
                              !.connecting = FALSE]

Timer(name) == [name |-> name, ms |-> CONNECTION_TIMEOUT_MS]

(* The browser gets the response of GET /authorize: the cookie, and the
   page with the challenge in window.__SIWS_CONFIG__ *)
ClientPageLoad ==
    /\ client.nav
    /\ auth.pc = "stored"
    /\ cookies' = cookies \cup {[name |-> "provider",
                                  maxAge |-> nonceExpiry,
                                  value |-> auth.input[1]]}
    /\ issued' = issued \cup {auth.input[1]}
    /\ auth' = IdleAuth
    /\ client' = [NewPage(client.connectors) EXCEPT !.nav = FALSE,
                                                    !.input = auth.input]
    /\ UNCHANGED <<config, keepAlive, decision, now, store, nextId, consumed, req>>

(* DOMContentLoaded: the client is created, siws:ready carries getWallets()
   and the page subscribes to onWalletsChange *)
ClientReady ==
    /\ ~client.nav
    /\ ~client.ready
    /\ client' = [Render(client, Supported(client.connectors))
                     EXCEPT !.ready = TRUE, !.delivered = "getWallets"]
    /\ UNCHANGED <<config, keepAlive, decision, now, store, cookies, issued, nextId, consumed,
                   auth, req>>

(* The connector state changes to the connectors S: the subscriber of
   onWalletsChange renders the filtered list *)
ClientWalletsChange(S) ==
    /\ client.ready
    /\ client.location = "page"
    /\ client' = [Render(client, Supported(S))
                     EXCEPT !.connectors = S, !.delivered = "onWalletsChange"]
    /\ UNCHANGED <<config, keepAlive, decision, now, store, cookies, issued, nextId, consumed,
                   auth, req>>

(* handleWalletClick up to the await, connectAndSign up to its first await:
   buttons disabled, error hidden, connectWallet called under a timeout *)
ClientClick(w) ==
    /\ client.ready
    /\ client.location = "page"
    /\ client.list = "wallets"
    /\ w \in client.wallets
    /\ ~client.disabled
    /\ client.pc = "idle"
    /\ client' = [client EXCEPT !.disabled = TRUE,
                                !.connecting = TRUE,
                                !.error = <<>>,
                                !.wallet = <<w>>,
                                !.features = {},
                                !.output = <<>>,
                                !.result = <<>>,
                                !.pc = "connect",
                                !.pending = {"connect"},
                                !.timers = {Timer("connect")},
                                !.calls = [NoCalls EXCEPT !.connect = @ + 1]]
    /\ UNCHANGED <<config, keepAlive, decision, now, store, cookies, issued, nextId, consumed,
                   auth, req>>

Features == {"solana:signIn", "solana:signMessage"}

(* How connectWallet settles: connected to a wallet with some features (the
   connector found or not), resolved without a connection, or rejected *)
ConnectOutcomes ==
    [kind : {"connected"}, features : SUBSET Features, connector : BOOLEAN,
     message : {<<>>}]
      \cup [kind : {"disconnected"}, features : {{}}, connector : {FALSE},
            message : {<<>>}]
      \cup [kind : {"rejected"}, features : {{}}, connector : {FALSE},
            message : WalletMessages]

(* Variant: the text of the fallback leaves the chain out *)
FallbackMessageNoChain(input, address) ==
    createSignInMessageText([address |-> address] @@
                            [f \in DOMAIN input \ {"chainId"} |-> input[f]])

(* createSignInMessageText({...signInInput, domain, address}) encoded *)
FallbackMessage(input, address) ==
    createSignInMessageText([address |-> address, domain |-> input.domain]
                              @@ input)

(* The output made from the signature of signMessage by the account of key
   k, as it is posted *)
FallbackOutput(input, k) ==
    LET messageBytes == FallbackMessage(input, Base58(PublicKey(k))) IN
    [address |-> Base58(PublicKey(k)),
     publicKey |-> PublicKey(k),
     signature |-> Sign(k, messageBytes),
     signedMessage |-> messageBytes]

(* How signIn settles: with a list of outputs, or rejected *)
SignInOutcomes(input) ==
    [kind : {"outputs"},
     outputs : {<<>>, <<Honest(input, UserKey)>>,
                <<Honest(input, UserKey), Honest(input, AdversaryKey)>>},
     message : {<<>>}]
      \cup [kind : {"rejected"}, outputs : {<<>>}, message : WalletMessages]

(* How signMessage settles: with a signature, or rejected *)
SignMessageOutcomes ==
    [kind : {"signature"}, message : {<<>>}]
      \cup [kind : {"rejected"}, message : WalletMessages]

(* Variant: a wallet without a signing feature is posted with no output *)
StartSignPosts(cl, features) ==
    IF features \cap {"solana:signIn", "solana:signMessage"} = {}
        THEN [cl EXCEPT !.pc = "fetch",
                        !.features = features,
                        !.output = <<NoBody>>,
                        !.pending = {},
                        !.calls = [@ EXCEPT !.post = @ + 1]]
    ELSE IF "solana:signIn" \in features
        THEN [cl EXCEPT !.pc = "signIn",
                        !.features = features,
                        !.pending = {"signIn"},
                        !.timers = @ \cup {Timer("sign")},
                        !.calls = [@ EXCEPT !.sign = @ + 1]]
        ELSE [cl EXCEPT !.pc = "signMessage",
                        !.features = features,
                        !.pending = {"signMessage"},
                        !.timers = @ \cup {Timer("sign")},
                        !.calls = [@ EXCEPT !.sign = @ + 1]]

(* connectAndSign from the connection to the signing call *)
StartSign(cl, features) ==
    IF "solana:signIn" \in features
        THEN [cl EXCEPT !.pc = "signIn",
                        !.features = features,
                        !.pending = {"signIn"},
                        !.timers = @ \cup {Timer("sign")},
                        !.calls = [@ EXCEPT !.sign = @ + 1]]
    ELSE IF "solana:signMessage" \in features
        THEN [cl EXCEPT !.pc = "signMessage",
                        !.features = features,
                        !.pending = {"signMessage"},
                        !.timers = @ \cup {Timer("sign")},
                        !.calls = [@ EXCEPT !.sign = @ + 1]]
    ELSE Return([cl EXCEPT !.features = features], Failure(NoSigningSupport))

(* fetch(callbackUrl, {method: "POST", body}) is called *)
Post(cl, body) ==
    [cl EXCEPT !.pc = "fetch",
               !.output = <<body>>,
               !.pending = {},
               !.calls = [@ EXCEPT !.post = @ + 1]]

(* connectWallet settles while connectAndSign waits for it *)
WalletConnectSettles(o) ==
    /\ client.location = "page"
    /\ "connect" \in client.pending
    /\ client' =
          IF o.kind = "rejected" THEN Return(client, Caught(o.message))
          ELSE IF o.kind = "disconnected"
              THEN Return(client, Failure(FailedToConnect))
          ELSE IF ~o.connector THEN Return(client, Failure(WalletNotFound))
          ELSE StartSign(client, o.features)
    /\ UNCHANGED <<config, keepAlive, decision, now, store, cookies, issued, nextId, consumed,
                   auth, req>>

(* Variant: a wallet call that settles after its timeout is taken up *)
WalletLateSettlesResumes(call) ==
    /\ client.location = "page"
    /\ call \in client.late
    /\ client' = IF client.pc = "idle" /\ client.input # <<>>
                    THEN Post([client EXCEPT !.late = @ \ {call}],
                              Honest(client.input[1], UserKey))
                    ELSE [client EXCEPT !.late = @ \ {call}]
    /\ UNCHANGED <<config, keepAlive, decision, now, store, cookies, issued, nextId, consumed,
                   auth, req>>

(* A wallet call settles after withTimeout has rejected: the race is over
   and nobody waits for the call *)
WalletLateSettles(call) ==
    /\ client.location = "page"
    /\ call \in client.late
    /\ client' = [client EXCEPT !.late = @ \ {call}]
    /\ UNCHANGED <<config, keepAlive, decision, now, store, cookies, issued, nextId, consumed,
                   auth, req>>

(* Variant: the timer of the connection does not end the wait *)
TimerFiresSignOnly(t) ==
    /\ client.location = "page"
    /\ t \in client.timers
    /\ client' =
          IF t.name = "sign" /\ client.pc \in {"signIn", "signMessage"}
              THEN Return([client EXCEPT !.late = @ \cup client.pending],
                          Caught(IF client.pc = "signIn" THEN SignInTimedOut
                                 ELSE SigningTimedOut))
              ELSE [client EXCEPT !.timers = @ \ {t}]
    /\ UNCHANGED <<config, keepAlive, decision, now, store, cookies, issued, nextId, consumed,
                   auth, req>>

(* The timer of createTimeout fires CONNECTION_TIMEOUT_MS after the call:
   the race rejects when the call it was started for has not settled *)
TimerFires(t) ==
    /\ client.location = "page"
    /\ t \in client.timers
    /\ client' =
          IF \/ t.name = "connect" /\ client.pc = "connect"
             \/ t.name = "sign" /\ client.pc \in {"signIn", "signMessage"}
              THEN Return([client EXCEPT !.late = @ \cup client.pending],
                          Caught(IF client.pc = "connect" THEN ConnectionTimedOut
                                 ELSE IF client.pc = "signIn" THEN SignInTimedOut
                                 ELSE SigningTimedOut))
              ELSE [client EXCEPT !.timers = @ \ {t}]
    /\ UNCHANGED <<config, keepAlive, decision, now, store, cookies, issued, nextId, consumed,
                   auth, req>>

(* signIn settles while connectAndSign waits for it: the first output is
   posted *)
WalletSignInSettles(o) ==
    /\ client.location = "page"
    /\ "signIn" \in client.pending
    /\ client' =
          IF o.kind = "rejected" THEN Return(client, Caught(o.message))
          ELSE IF Len(o.outputs) = 0
              THEN Return(client, Failure(NoSignInResult))
          ELSE Post(client, o.outputs[1])
    /\ UNCHANGED <<config, keepAlive, decision, now, store, cookies, issued, nextId, consumed,
                   auth, req>>

(* signMessage settles while connectAndSign waits for it: the output is
   made of the account, the signature and the bytes that were signed *)
WalletSignMessageSettles(o) ==
    /\ client.location = "page"
    /\ "signMessage" \in client.pending
    /\ client' =
          IF o.kind = "rejected" THEN Return(client, Caught(o.message))
          ELSE Post(client, FallbackOutput(client.input[1], UserKey))
    /\ UNCHANGED <<config, keepAlive, decision, now, store, cookies, issued, nextId, consumed,
                   auth, req>>

(* The POST reaches the server with the cookie of the page *)
ClientRequestArrives ==
    /\ client.location = "page"
    /\ client.pc = "fetch"
    /\ CallbackBegin("r1", client.output[1], client.input,
                     client.input[1].domain)

(* Variant: the status alone decides, responseData.success is not read *)
FromResponseOkOnly(resp) ==
    IF resp.status \in 200..299
        THEN Success(IF "redirectUrl" \in DOMAIN resp THEN resp.redirectUrl
                     ELSE "undefined")
        ELSE Failure(IF "error" \in DOMAIN resp THEN <<resp.error>>
                     ELSE <<"Verification failed", ToString(resp.status)>>)

(* What connectAndSign makes of the response: response.json() with {} when
   the body is not JSON, then response.ok and responseData.success *)
FromResponse(resp) ==
    LET ok == resp.status \in 200..299
        success == "success" \in DOMAIN resp /\ resp.success
    IN  IF ~ok \/ ~success
            THEN Failure(IF "error" \in DOMAIN resp THEN <<resp.error>>
                         ELSE <<"Verification failed", ToString(resp.status)>>)
            ELSE Success(resp.redirectUrl)

(* Variant: after a failed POST the client posts once more *)
ClientFetchFailsRetries ==
    /\ client.location = "page"
    /\ client.pc = "fetch"
    /\ req["r1"].pc \in {"idle", "done"}
    /\ req' = [req EXCEPT !["r1"] = IdleReq]
    /\ client' = IF client.calls.post < 2
                    THEN Post(client, client.output[1])
                    ELSE Return(client, Caught(FailedToFetch))
    /\ UNCHANGED <<config, keepAlive, decision, now, store, cookies, issued, nextId, consumed, auth>>

(* fetch rejects: the request or the response is lost *)
ClientFetchFails ==
    /\ client.location = "page"
    /\ client.pc = "fetch"
    /\ req["r1"].pc \in {"idle", "done"}
    /\ req' = [req EXCEPT !["r1"] = IdleReq]
    /\ client' = Return(client, Caught(FailedToFetch))
    /\ UNCHANGED <<config, keepAlive, decision, now, store, cookies, issued, nextId, consumed, auth>>

(* The response of the callback arrives *)
ClientFetchResolves ==
    /\ client.location = "page"
    /\ client.pc = "fetch"
    /\ req["r1"].pc = "done"
    /\ req' = [req EXCEPT !["r1"] = IdleReq]
    /\ client' = Return(client, FromResponse(req["r1"].resp))
    /\ UNCHANGED <<config, keepAlive, decision, now, store, cookies, issued, nextId, consumed, auth>>

(* The retry button: window.location.reload() asks for the page again *)
ClientRetry ==
    /\ client.location = "page"
    /\ client.error # <<>>
    /\ client' = NewPage(client.connectors)
    /\ UNCHANGED <<config, keepAlive, decision, now, store, cookies, issued, nextId, consumed,
                   auth, req>>

----------------------------------------------------------------------------
(* The KeepAlive object (keep-alive.ts) *)

(* Variant: every start sets the alarm anew *)
KeepAliveFetchAlways ==
    /\ keepAlive' =
          [keepAlive EXCEPT
              !.alarm = <<PING_INTERVAL_MS>>,
              !.response = <<[status |-> "started",
                              interval |-> PING_INTERVAL_MS]>>]
    /\ UNCHANGED <<config, now, store, cookies, issued, nextId, consumed,
                   auth, req, client, decision>>

(* fetch(request), called by the cron trigger (scheduled) or from outside:
   getAlarm and setAlarm are storage operations, no other event of the
   object runs between them *)
KeepAliveFetch ==
    /\ keepAlive' =
          IF keepAlive.alarm = <<>>
              THEN [keepAlive EXCEPT
                       !.alarm = <<PING_INTERVAL_MS>>,
                       !.response = <<[status |-> "started",
                                       interval |-> PING_INTERVAL_MS]>>]
              ELSE [keepAlive EXCEPT
                       !.response = <<[status |-> "already_running",
                                       nextAlarm |-> keepAlive.alarm[1]]>>]
    /\ UNCHANGED <<config, now, store, cookies, issued, nextId, consumed,
                   auth, req, client, decision>>

(* Time passes *)
KeepAliveTick ==
    /\ keepAlive.alarm # <<>>
    /\ keepAlive.alarm[1] > 0
    /\ keepAlive' =
          [keepAlive EXCEPT
              !.alarm = <<IF @[1] > TickMs THEN @[1] - TickMs ELSE 0>>]
    /\ UNCHANGED <<config, now, store, cookies, issued, nextId, consumed,
                   auth, req, client, decision>>

(* The alarm is due and no alarm handler runs: the alarm is taken and
   alarm() runs up to the await of the ping *)
AlarmFires ==
    /\ keepAlive.pc = "idle"
    /\ keepAlive.alarm = <<0>>
    /\ keepAlive' = [keepAlive EXCEPT !.alarm = <<>>, !.pc = "ping"]
    /\ UNCHANGED <<config, now, store, cookies, issued, nextId, consumed,
                   auth, req, client, decision>>

(* What env.SELF.fetch does: a response with a status, or it throws *)
PingOutcomes == {"200", "500", "throws"}

(* Variant: the next alarm is set in the try block, after the ping *)
AlarmResumesInTry(outcome) ==
    /\ keepAlive.pc = "ping"
    /\ keepAlive' =
          [keepAlive EXCEPT
              !.pc = "idle",
              !.ping = <<outcome>>,
              !.parity = ~@,
              !.alarm = IF outcome = "throws" THEN @
                        ELSE <<PING_INTERVAL_MS>>]
    /\ UNCHANGED <<config, now, store, cookies, issued, nextId, consumed,
                   auth, req, client, decision>>

(* The ping settles: alarm() logs it in the try or in the catch and sets
   the next alarm *)
AlarmResumes(outcome) ==
    /\ keepAlive.pc = "ping"
    /\ keepAlive' =
          [keepAlive EXCEPT
              !.pc = "idle",
              !.ping = <<outcome>>,
              !.parity = ~@,
              !.alarm = <<PING_INTERVAL_MS>>]
    /\ UNCHANGED <<config, now, store, cookies, issued, nextId, consumed,
                   auth, req, client, decision>>

----------------------------------------------------------------------------
(* The allow callback of the issuer (index.ts) *)

(* The first place of ch in str, 0 when it is not there *)
IndexOf(str, ch) ==
    IF \E i \in 1..Len(str) : str[i] = ch
        THEN CHOOSE i \in 1..Len(str) :
                str[i] = ch /\ \A j \in 1..(i - 1) : str[j] # ch
        ELSE 0

(* The last place of ch in str, 0 when it is not there *)
LastIndexOf(str, ch) ==
    IF \E i \in 1..Len(str) : str[i] = ch
        THEN CHOOSE i \in 1..Len(str) :
                str[i] = ch /\ \A j \in (i + 1)..Len(str) : str[j] # ch
        ELSE 0

(* new URL(text).hostname for an https URL: what stands between the scheme
   and the first slash, without the user information and the port, in
   lower case *)
URLHostname(text) ==
    LET rest == SubSeq(text, Len(Https) + 1, Len(text))
        slash == IndexOf(rest, "/")
        authority == IF slash = 0 THEN rest ELSE SubSeq(rest, 1, slash - 1)
        at == LastIndexOf(authority, "@")
        hostport == SubSeq(authority, at + 1, Len(authority))
        colon == IndexOf(hostport, ":")
        host == IF colon = 0 THEN hostport ELSE SubSeq(hostport, 1, colon - 1)
    IN  toLowerCase(host)

(* String.prototype.endsWith *)
endsWith(str, suffix) ==
    /\ Len(suffix) <= Len(str)
    /\ SubSeq(str, Len(str) - Len(suffix) + 1, Len(str)) = suffix

(* Variant: the dot before the domain is not asked for *)
MatchesSuffix(hostname, domain) == endsWith(hostname, domain)

(* hostname === domain || hostname.endsWith(`.${domain}`) *)
Matches(hostname, domain) ==
    hostname = domain \/ endsWith(hostname, <<".">> \o domain)

(* allow(input) *)
allow(input) ==
    LET hostname == URLHostname(input.redirectURI) IN
    IF hostname = Localhost \/ hostname = Loopback THEN TRUE
    ELSE \E i \in 1..Len(allowedDomains) : Matches(hostname, allowedDomains[i])

(* The issuer asks allow for the redirect URI of an authorization request *)
AllowCall(r) ==
    /\ decision' = <<[request |-> r,
                      redirectURI |-> RedirectURI(r),
                      allowed |-> allow([redirectURI |-> RedirectURI(r)])]>>
    /\ UNCHANGED <<config, now, store, cookies, issued, nextId, consumed,
                   auth, req, client, keepAlive>>

----------------------------------------------------------------------------
(* Specifications *)

Authorize ==
    \E host \in IssuerHosts, nonce \in Nonces :
        \/ AuthorizeStore(host, nonce)
        \/ AuthorizeStoreFails(host, nonce)

CallbackStep(r) ==
    \/ CallbackGet(r)
    \/ CallbackRemove(r)
    \/ CallbackStorageThrows(r)
    \/ CallbackVerify(r)
    \/ \E result \in Completions : SuccessSettles(r, result)
    \/ CallbackRespond(r)
    \/ CallbackEnd(r)

Quiet == auth.pc = "idle" /\ \A r \in Req : req[r].pc \in {"idle", "done"}

(* Requests are served one after another; clients send anything *)
NextSeq ==
    \/ Tick
    \/ \E n \in Nonces : StoreExpire(n)
    \/ Quiet /\ Authorize
    \/ AuthorizeRespond
    \/ AuthorizeError
    \/ \E r \in Req : CallbackStep(r)
    \/ Quiet /\ \E p \in Posts(issued) :
                   CallbackBegin("r1", p.body, p.jar, p.host)
    \/ Quiet /\ CallbackBadJson("r1")
    \/ Quiet /\ CallbackCookieThrows("r1")

SpecSeq == Init /\ [][NextSeq]_vars

(* Requests interleave at every await, within one tick of the clock (one
   validity window); each client posts what its wallet signed for a
   challenge it was issued, to the host that issued it *)
Next ==
    \/ Authorize
    \/ AuthorizeRespond
    \/ AuthorizeError
    \/ \E r \in Req : CallbackStep(r)
    \/ \E r \in Req, c \in issued :
          CallbackBegin(r, Honest(c, UserKey), <<c>>, c.domain)
    \/ \E r \in Req : CallbackBadJson(r)
    \/ \E r \in Req : CallbackCookieThrows(r)

Spec == Init /\ [][Next]_vars

(* GET /authorize under every configuration of the provider *)
InitConfig == \E cfg \in Configs : InitWith(cfg)

NextConfig ==
    \/ Tick
    \/ Authorize
    \/ AuthorizeRespond
    \/ AuthorizeError

SpecConfig == InitConfig /\ [][NextConfig]_vars

(* The callback of the request of the page, step by step *)
ServerStep ==
    \/ CallbackGet("r1")
    \/ CallbackRemove("r1")
    \/ CallbackStorageThrows("r1")
    \/ CallbackVerify("r1")
    \/ \E result \in Completions : SuccessSettles("r1", result)
    \/ CallbackRespond("r1")

(* What the page and the wallet client do by themselves *)
ClientStep ==
    \/ ClientReady
    \/ \E t \in client.timers : TimerFires(t)

(* One browser of one user, its wallet and the server *)
NextClient ==
    \/ client.nav /\ Authorize
    \/ AuthorizeError
    \/ ClientPageLoad
    \/ ClientStep
    \/ \E w \in client.wallets : ClientClick(w)
    \/ \E o \in ConnectOutcomes : WalletConnectSettles(o)
    \/ client.pc = "signIn"
         /\ \E o \in SignInOutcomes(client.input[1]) : WalletSignInSettles(o)
    \/ \E o \in SignMessageOutcomes : WalletSignMessageSettles(o)
    \/ \E call \in client.late : WalletLateSettles(call)
    \/ ClientRequestArrives
    \/ ServerStep
    \/ ClientFetchResolves
    \/ ClientFetchFails
    \/ ClientRetry

SpecClient == Init /\ [][NextClient]_vars

(* The timers fire, the page and the server take their steps; the wallet
   and the network owe nothing *)
SpecClientLive ==
    /\ SpecClient
    /\ WF_vars(ClientStep)
    /\ WF_vars(client.nav /\ Authorize)
    /\ WF_vars(AuthorizeError)
    /\ WF_vars(ClientPageLoad)
    /\ WF_vars(ServerStep)

(* Wallets registering and unregistering while the page is shown *)
NextDiscovery ==
    \/ client.nav /\ Authorize
    \/ AuthorizeError
    \/ ClientPageLoad
    \/ ClientReady
    \/ \E S \in SUBSET WalletNames : ClientWalletsChange(S)

InitDiscovery == \E S \in SUBSET WalletNames : InitPage(DefaultConfig, S)

SpecDiscovery == InitDiscovery /\ [][NextDiscovery]_vars

(* The connector states the subscriber of onWalletsChange is called with
   while the page is open: the subscriber runs on every change of the state
   of the connector client, here with the wallets as they were *)
Rerenders == {Installed}

(* The page with wallet-change notifications at any moment *)
NextRerender ==
    \/ NextClient
    \/ \E S \in Rerenders : ClientWalletsChange(S)

SpecRerender == Init /\ [][NextRerender]_vars

(* The KeepAlive object with the cron trigger and the clock *)
NextKeepAlive ==
    \/ KeepAliveFetch
    \/ KeepAliveTick
    \/ AlarmFires
    \/ \E outcome \in PingOutcomes : AlarmResumes(outcome)

SpecKeepAlive == Init /\ [][NextKeepAlive]_vars

(* Time passes, the platform runs alarm() when the alarm is due, and the
   ping settles; the cron trigger may or may not come *)
SpecKeepAliveLive ==
    /\ SpecKeepAlive
    /\ WF_vars(KeepAliveTick)
    /\ WF_vars(AlarmFires)
    /\ WF_vars(\E outcome \in PingOutcomes : AlarmResumes(outcome))

(* The allow callback on the redirect URIs of clients *)
NextAllow == \E r \in Redirects : AllowCall(r)

SpecAllow == Init /\ [][NextAllow]_vars

TypeOK ==
    /\ now \in 0..MaxTime
    /\ DOMAIN store \subseteq Nonces
    /\ nextId \in 1..(MaxIssue + 1)
    /\ \A r \in Req :
          req[r].pc \in {"idle", "get", "remove", "verify", "success", "respond", "done"}

----------------------------------------------------------------------------
(* Properties *)

Input(q) == q.jar[1]

Parsed(q) == parseSignInMessage(q.body.signedMessage)

Nonce(q) == Input(q).nonce

(* Request r takes a step of its handler from position pc *)
Steps(r, pc) == req[r].pc = pc /\ req'[r] # req[r]

(* The record with identity id is in the store s *)
Holds(s, id) == \E n \in DOMAIN s : s[n].id = id

IsSuccess(resp) ==
    resp = [status |-> 200, success |-> TRUE, redirectUrl |-> RedirectUrl]

(* C1: after one challenge is issued, two concurrent callbacks with the same
   valid payload and the same recovered challenge never both reach session
   completion on the same nonce record: one of them fails with 'Invalid or
   expired nonce'. *)
C1_AtMostOnceConsumption ==
    \A r1, r2 \in Req :
        (/\ r1 # r2
         /\ req[r1].pc = "success" /\ req[r2].pc = "success"
         /\ req[r1].body = req[r2].body /\ req[r1].jar = req[r2].jar)
        => req[r1].found # req[r2].found

(* C2: a callback that calls session completion with {address: A} has
   verified a signature of the key whose address is A: body.address equals
   the address of body.publicKey and the address in the signed message. *)
C2_IdentityBinding ==
    \A r \in Req :
        req[r].pc = "success"
        => /\ Base58(req[r].body.publicKey) = req[r].body.address
           /\ Parsed(req[r]).address = req[r].body.address

(* C3: a callback calls session completion only if in that callback the
   four payload fields were present, the challenge was recovered from the
   cookie, the nonce record was found and removed, verifySignIn returned
   true, the parsed domain equals the request host, the message is not
   expired and notBefore, if present, is not in the future. *)
C3_SuccessOnlyAfterAllChecks ==
    [][\A r \in Req :
          (req'[r].pc = "success" /\ req[r].pc # "success")
          => LET q == req[r] IN
             /\ q.pc = "verify"
             /\ \A f \in {"address", "publicKey", "signature", "signedMessage"} :
                   f \in DOMAIN q.body
             /\ q.body.address # ""
             /\ q.jar # <<>>
             /\ q.found # 0
             /\ ~Holds(store, q.found)
             /\ verifySignIn(Input(q), Output(q))
             /\ Parsed(q).parsed
             /\ Parsed(q).domain = q.host
             /\ DateParse(Parsed(q).expirationTime) >= now
             /\ (Parsed(q).notBefore # Undefined
                   => DateParse(Parsed(q).notBefore) <= now)]_vars

C3_Witness == \E r \in Req : req[r].pc = "success" /\ req[r].found # 0

(* C4: once a callback has found the nonce record, the record is removed
   before the signature verification and the message checks run, and it is
   not there again when they have run, whatever their outcome. *)
C4_DeleteThenVerify ==
    [][\A r \in Req :
          req[r].pc \in {"verify", "success", "respond"}
          => /\ req[r].found # 0
             /\ ~Holds(store, req[r].found)
             /\ ~Holds(store', req[r].found)]_vars

C4_Witness ==
    \E r \in Req : req[r].pc = "verify" /\ Nonce(req[r]) \notin DOMAIN store

(* C5 as stated: a lookup that finds no record answers 'Invalid or expired
   nonce' and goes no further, and with callbacks served one after another
   at most one callback ever passes the lookup of a nonce record. *)
C5_AbsentFails ==
    \A r \in Req :
        (Steps(r, "get") /\ Nonce(req[r]) \notin DOMAIN store)
        => \/ req'[r] = Done(Error(400, "Invalid or expired nonce"))
           \/ req'[r] = Done(Error(500, "Authentication failed"))

C5_OneLookupPerRecord ==
    [][/\ C5_AbsentFails
       /\ \A n \in DOMAIN store' : store'[n].hits <= 1]_vars

(* C5 amended: a lookup that finds no record answers 'Invalid or expired
   nonce' (500 when the store read itself fails) and goes no further, and
   with callbacks served one after another at most one callback ever passes
   both the lookup and the removal of a nonce record, after which the
   record is gone. *)
C5_OneConsumptionPerRecord ==
    [][/\ C5_AbsentFails
       /\ \A r \in Req :
             (Steps(r, "remove") /\ req'[r].pc = "verify")
             => /\ req[r].found \notin consumed
                /\ ~Holds(store', req[r].found)
                /\ Nonce(req[r]) \notin DOMAIN store']_vars

C5_Witness ==
    /\ \E r \in Req : req[r].resp = Error(400, "Invalid or expired nonce")
    /\ nextId > 1
    /\ DOMAIN store = {}

(* C6: when Storage.set fails in GET /authorize the request ends with no
   cookie set, no page rendered and no second attempt; a challenge reaches
   the browser only after its nonce record was written. *)
C6_NoChallengeWithoutNonce ==
    [][/\ (auth.pc = "failed" /\ auth' # auth)
          => (auth' = IdleAuth /\ issued' = issued /\ store' = store)
       /\ (auth'.pc = "stored" /\ auth.pc # "stored")
          => LET c == auth'.input[1] IN
             /\ c.nonce \in DOMAIN store'
             /\ store'[c.nonce].issuedAt = c.issuedAt
       /\ issued' # issued
          => (auth.pc = "stored" /\ issued' = issued \cup {auth.input[1]})]_vars

C6_Witness ==
    /\ auth.pc = "failed"
    /\ auth.input[1].nonce \notin DOMAIN store
    /\ auth.input[1] \notin issued

(* A callback at the checks whose payload passes verifySignIn and whose
   message names the request host *)
ValidForHost(q) ==
    /\ verifySignIn(Input(q), Output(q))
    /\ Parsed(q).domain = q.host

(* C7 as stated: a validly signed message is accepted at time t only if t
   is strictly before its expirationTime. *)
C7_StrictExpiry ==
    [][\A r \in Req :
          (Steps(r, "verify") /\ req'[r].pc = "success")
          => now < DateParse(Parsed(req[r]).expirationTime)]_vars

(* C7 amended: a validly signed message for the request host with
   expirationTime e is accepted at time t exactly when t is at or before e;
   at every t after e the callback fails with 'Message expired', also when
   the nonce record was still in the store at the lookup. *)
C7_ExpiryEnforced ==
    [][\A r \in Req :
          (Steps(r, "verify") /\ ValidForHost(req[r]))
          => IF now > DateParse(Parsed(req[r]).expirationTime)
                THEN req'[r] = Done(Error(401, "Message expired"))
                ELSE req'[r].pc = "success"]_vars

C7_Witness == \E r \in Req : req[r].resp = Error(401, "Message expired")

(* C8: a callback whose signed message names a domain other than the host
   of the request never reaches session completion, and fails with 'Domain
   mismatch' when the signature verification returned true. *)
C8_DomainBinding ==
    [][\A r \in Req :
          (/\ Steps(r, "verify")
           /\ Parsed(req[r]).parsed
           /\ Parsed(req[r]).domain # req[r].host)
          => /\ req'[r].pc = "done"
             /\ ~IsSuccess(req'[r].resp)
             /\ verifySignIn(Input(req[r]), Output(req[r]))
                  => req'[r] = Done(Error(401, "Domain mismatch"))]_vars

C8_Witness == \E r \in Req : req[r].resp = Error(401, "Domain mismatch")

(* The signature and message are what some wallet produces for challenge c *)
IsWalletOutput(c, body) ==
    \E k \in Keys, a \in Addresses :
        /\ body.signedMessage = WalletMessage(c, a)
        /\ body.signature = Sign(k, body.signedMessage)

(* C9: when the submitted signature or signedMessage is not what a wallet
   produced for the issued challenge, so that verifySignIn returns false,
   the callback answers 'Signature verification failed' with status 401 and
   does not call session completion. *)
C9_TamperDetected ==
    [][\A r \in Req :
          Steps(r, "verify")
          => LET q == req[r] IN
             /\ ~IsWalletOutput(Input(q), q.body)
                  => /\ req'[r].pc = "done"
                     /\ ~VerifyThrows(Input(q), Output(q))
                          => req'[r] = Done(Error(401, "Signature verification failed"))
             /\ (~verifySignIn(Input(q), Output(q)) /\ ~VerifyThrows(Input(q), Output(q)))
                  => req'[r] = Done(Error(401, "Signature verification failed"))]_vars

C9_Witness ==
    \E r \in Req : req[r].resp = Error(401, "Signature verification failed")

(* The native sign-in of the recovered challenge by a key holder, posted
   with the cookie to the host that issued the challenge *)
RoundTrip(q) ==
    /\ q.jar # <<>>
    /\ \E k \in Keys : q.body = Honest(Input(q), k)
    /\ q.host = Input(q).domain

(* C10: a challenge issued by GET /authorize, signed unmodified by a key
   holder and posted once to /callback on the same host before its
   expirationTime, with no other callback for its nonce, is answered with
   {success: true, redirectUrl}: its record stays in the store until a
   callback removes it or its TTL ends, the lookup that finds it goes on to
   the removal, the checks pass, and when session completion answers with
   a redirect its target is returned as JSON. *)
C10_RoundTrip ==
    [][/\ \A n \in DOMAIN store :
             n \notin DOMAIN store'
             => \/ now >= store[n].ttlEnd
                \/ \E r \in Req : Steps(r, "remove") /\ Nonce(req[r]) = n
       /\ \A c \in issued' \ issued :
             /\ c.domain \in Hosts
             /\ DateParse(c.issuedAt) <= now
             /\ DateParse(c.expirationTime) > DateParse(c.issuedAt)
       /\ \A r \in Req :
             RoundTrip(req[r])
             => /\ (Steps(r, "get") /\ Nonce(req[r]) \in DOMAIN store)
                   => \/ req'[r].pc = "remove"
                      \/ req'[r] = Done(Error(500, "Authentication failed"))
                /\ Steps(r, "remove")
                   => \/ req'[r].pc = "verify"
                      \/ req'[r] = Done(Error(500, "Authentication failed"))
                /\ (Steps(r, "verify")
                      /\ now < DateParse(Input(req[r]).expirationTime))
                   => req'[r].pc = "success"
                /\ (Steps(r, "respond") /\ req[r].result = "redirect")
                   => IsSuccess(req'[r].resp)]_vars

C10_Witness == \E r \in Req : IsSuccess(req[r].resp)

RequiredFields == {"address", "publicKey", "signature", "signedMessage"}

(* Every required field of the body is there and is not empty *)
Complete(body) ==
    /\ \A f \in RequiredFields : f \in DOMAIN body
    /\ body.address # ""
    /\ \A f \in RequiredFields \ {"address"} : body[f] # <<>>

MissingFields == Error(400, "Missing required fields")
SessionExpired == Error(400, "Session expired. Please try again.")
InvalidOrExpiredNonce == Error(400, "Invalid or expired nonce")
AuthenticationFailed == Error(500, "Authentication failed")

(* C11: a callback whose body lacks one of address, publicKey, signature,
   signedMessage, or has it empty (an empty string or an empty byte array),
   is answered with 'Missing required fields' and status 400. *)
C11_PayloadCompleteness ==
    [][\A r \in Req : \A p \in Posts(issued) :
          (CallbackBegin(r, p.body, p.jar, p.host) /\ ~Complete(p.body))
          => req'[r] = Done(MissingFields)]_vars

(* C12: a callback that fails with 'Missing required fields' or 'Session
   expired' has not read and not removed anything in the nonce store: every
   record is as it was, so the challenge can still be completed. *)
C12_EarlyFailuresLeaveStore ==
    [][\A r \in Req :
          (Steps(r, "idle")
             /\ req'[r] \in {Done(MissingFields), Done(SessionExpired)})
          => /\ store' = store
             /\ consumed' = consumed]_vars

C12_Witness ==
    /\ \E r \in Req : req[r].resp \in {MissingFields, SessionExpired}
    /\ \E n \in DOMAIN store : store[n].hits = 0

(* C13: a callback that has passed all checks answers with the JSON object
   {success: true, redirectUrl} made from the redirect target of session
   completion (or with the catch-all error when session completion throws);
   the response of session completion itself is never forwarded. *)
C13_SuccessShape ==
    [][\A r \in Req :
          Steps(r, "respond")
          => \/ IsSuccess(req'[r].resp)
             \/ req'[r].resp = AuthenticationFailed]_vars

Taxonomy ==
    {MissingFields, SessionExpired, InvalidOrExpiredNonce,
     Error(401, "Signature verification failed"),
     Error(401, "Domain mismatch"),
     Error(401, "Message expired"),
     Error(401, "Message not yet valid"),
     AuthenticationFailed}

(* C14: every error a callback answers with is a JSON object {error} with
   one of the eight server codes and a status in {400, 401, 500}; the only
   other responses are the success object and the response of session
   completion forwarded as it is. *)
C14_ClosedTaxonomy ==
    \A r \in Req :
        req[r].pc = "done"
        => LET resp == req[r].resp IN
           /\ resp.status \in {200, 400, 401, 500}
           /\ \/ resp \in Taxonomy
              \/ IsSuccess(resp)
              \/ resp = Response("plain")
           /\ "error" \in DOMAIN resp
                => (resp \in Taxonomy /\ DOMAIN resp = {"status", "error"})

C14_Witness == \E r \in Req : req[r].resp = SessionExpired

(* C15: an exception at any point of the callback (body parsing, cookie
   read, Storage.get, Storage.remove, verification, session completion) is
   answered with 'Authentication failed' and status 500 and nothing else in
   the body, never with a success response. *)
C15_CatchAll ==
    [][\A r \in Req :
          LET q == req[r] IN
          /\ (Steps(r, "idle") /\ req'[r].pc = "done")
                => req'[r] \in {Done(MissingFields), Done(SessionExpired),
                                Done(AuthenticationFailed)}
          /\ (Steps(r, "get") /\ req'[r].pc = "done")
                => \/ req'[r] = Done(AuthenticationFailed)
                   \/ /\ Nonce(q) \notin DOMAIN store
                      /\ req'[r] = Done(InvalidOrExpiredNonce)
          /\ (Steps(r, "remove") /\ req'[r].pc = "done")
                => req'[r] = Done(AuthenticationFailed)
          /\ (Steps(r, "verify") /\ VerifyThrows(Input(q), Output(q)))
                => req'[r] = Done(AuthenticationFailed)
          /\ (Steps(r, "respond") /\ q.result = "throws")
                => req'[r] = Done(AuthenticationFailed)
          /\ (req'[r].pc = "done" /\ req'[r].resp.status = 500)
                => req'[r] = Done(AuthenticationFailed)]_vars

C15_Witness ==
    \E r \in Req : req[r].resp = AuthenticationFailed /\ consumed # {}

(* C16: for every issued challenge expirationTime is issuedAt plus the
   configured validity window (the default window when none is configured),
   and the nonce record and the challenge cookie are both written with a
   time-to-live of that same window. *)
C16_ValidityWindow ==
    /\ config.nonceExpiry = Unset => nonceExpiry = DefaultNonceExpiry
    /\ config.nonceExpiry # Unset => nonceExpiry = config.nonceExpiry[1]
    /\ \A n \in DOMAIN store :
          store[n].ttlEnd = DateParse(store[n].issuedAt) + nonceExpiry
    /\ \A k \in cookies :
          /\ DateParse(k.value.expirationTime)
                = DateParse(k.value.issuedAt) + nonceExpiry
          /\ k.maxAge = nonceExpiry
    /\ issued = {k.value : k \in cookies}

C16_Witness ==
    /\ config.nonceExpiry # Unset
    /\ \E k \in cookies : k.value.nonce \in DOMAIN store

(* C17: for every challenge issued by GET /authorize, under any accepted
   configuration of the validity window, expirationTime is strictly after
   issuedAt. *)
C17_ExpiryAfterIssue ==
    \A c \in issued : DateParse(c.expirationTime) > DateParse(c.issuedAt)

Networks == {"mainnet", "devnet", "testnet"}

(* C18: the chainId of an issued challenge is the configured chainId when
   one is set, otherwise the value of SOLANA_CHAIN_ID when one is set,
   otherwise "mainnet", and it is always one of mainnet, devnet, testnet. *)
C18_ChainIdResolution ==
    \A c \in issued :
        /\ config.chainId # Unset => c.chainId = config.chainId[1]
        /\ (config.chainId = Unset /\ config.env # Unset)
              => c.chainId = config.env[1]
        /\ (config.chainId = Unset /\ config.env = Unset)
              => c.chainId = "mainnet"
        /\ c.chainId \in Networks

(* C19: no two challenges issued by GET /authorize carry the same nonce:
   the nonce of a new challenge has no record in the store and is the nonce
   of no challenge issued before, so no record is overwritten. *)
C19_NonceUniqueness ==
    [][(auth.pc = "idle" /\ auth'.pc = "stored")
          => LET n == auth'.input[1].nonce IN
             /\ n \notin DOMAIN store
             /\ \A c \in issued : c.nonce # n]_vars

(* C20: the answer of a callback whose nonce has no record is the same
   whether the record was consumed, has expired or never existed: status
   400 and 'Invalid or expired nonce', and every 400 answer of the lookup is
   that one. *)
C20_NoNonceOracle ==
    [][\A r \in Req :
          /\ (Steps(r, "get") /\ Nonce(req[r]) \notin DOMAIN store
                /\ req'[r] # Done(AuthenticationFailed))
               => req'[r] = Done(InvalidOrExpiredNonce)
          /\ (Steps(r, "get") /\ req'[r].pc = "done"
                /\ req'[r].resp.status # 500)
               => req'[r].resp = InvalidOrExpiredNonce]_vars

C20_Witness ==
    /\ \E r \in Req : req[r].resp = InvalidOrExpiredNonce
    /\ consumed = {}

(* C21: a callback for nonce A reads and removes only the record of A: on
   every step of its lookup and removal the records of all other nonces are
   as they were, the outcome of the lookup depends on the record of A
   alone, and concurrent callbacks for distinct nonces each pass. *)
C21_CrossNonceIndependence ==
    [][\A r \in Req :
          (req[r].pc \in {"get", "remove", "verify"} /\ req'[r] # req[r])
          => LET n == Nonce(req[r]) IN
             /\ \A m \in Nonces \ {n} :
                   /\ m \in DOMAIN store <=> m \in DOMAIN store'
                   /\ m \in DOMAIN store => store'[m] = store[m]
             /\ req[r].pc = "get"
                  => /\ req'[r].pc = "remove" => n \in DOMAIN store
                     /\ n \in DOMAIN store
                          => \/ req'[r].pc = "remove"
                             \/ req'[r] = Done(AuthenticationFailed)
             /\ req[r].pc = "verify" => req'[r].pc = "success"]_vars

C21_Witness ==
    \E r1, r2 \in Req :
        /\ req[r1].pc = "success" /\ req[r2].pc = "success"
        /\ Nonce(req[r1]) # Nonce(req[r2])

(* The user has selected a wallet and the page has not answered yet *)
InFlight == client.connecting

(* The page has navigated, or shows an error with the buttons enabled *)
Settled ==
    \/ client.location # "page"
    \/ client.error # <<>> /\ ~client.disabled

(* C22: after the user has selected a wallet the page eventually navigates
   to the redirect URL or shows an error with the wallet buttons enabled
   again, whatever the wallet and the callback request do. *)
C22_NeverStuck == InFlight ~> Settled

(* C23: the page shows exactly one of loading, wallet list and error: the
   error is never shown together with the interactive wallet list, and the
   error goes away only through a reload of the page. *)
C23_VisualStates ==
    [][/\ ~(/\ client'.error # <<>>
            /\ client'.list = "wallets"
            /\ ~client'.disabled)
       /\ (client.error # <<>> /\ client'.error = <<>>) => client'.nav
       /\ (client.list = "loading" /\ client'.list # "loading")
            => (~client.ready /\ client'.ready)
       /\ (~client.connecting /\ client'.connecting)
            => (client.list = "wallets" /\ ~client.disabled)]_vars

(* The names of WalletNames that contain a curated name, whatever the case *)
CuratedNames == {Phantom, Solflare, Backpack, MyPhantom}

(* C24: the list of getWallets and the list given to the subscribers of
   onWalletsChange are the discovered wallets whose name contains, without
   regard to case, Phantom, Solflare or Backpack, and no others. *)
C24_AllowList ==
    client.ready
    => /\ client.delivered \in {"getWallets", "onWalletsChange"}
       /\ client.wallets = client.connectors \cap CuratedNames
       /\ client.list = (IF client.wallets = {} THEN "none" ELSE "wallets")

C24_Witness ==
    /\ client.delivered = "onWalletsChange"
    /\ MyPhantom \in client.wallets
    /\ MetaMask \in client.connectors \ client.wallets

(* C25: when the timer of the connection fires while connectWallet has not
   settled, connectAndSign returns {success: false} with the connection
   timeout error, which is neither the cancellation nor a signing timeout
   error, and it has made no signing call and no POST; the timer runs
   30 s. *)
C25_ConnectTimeout ==
    [][/\ (TimerFires(Timer("connect")) /\ client.pc = "connect")
            => /\ client'.result = <<Failure(ConnectionTimedOut)>>
               /\ client'.pc = "idle"
               /\ client'.calls.sign = 0
               /\ client'.calls.post = 0
               /\ req' = req
       /\ \A t \in client'.timers : t.ms = 30000
       /\ client'.result = <<Failure(ConnectionTimedOut)>>
            => /\ client'.calls.sign = 0
               /\ client'.calls.post = 0
       /\ ConnectionTimedOut
            \notin {SignInCancelled, SignInTimedOut, SigningTimedOut}]_vars

C25_Witness ==
    /\ client.result = <<Failure(ConnectionTimedOut)>>
    /\ "connect" \in client.late

(* The failures connectAndSign returns before it has a signature output *)
EarlyFailures ==
    {Failure(m) : m \in {NoSigningSupport, NoSignInResult, ConnectionTimedOut,
                         SignInTimedOut, SigningTimedOut, SignInCancelled,
                         FailedToConnect, WalletNotFound}}

(* C26: connectAndSign posts only after it has a signature output of the
   wallet; with a wallet without signing features, with zero outputs of
   signIn, with a timeout or a rejection of connect or signing it returns
   {success: false, error} without a POST, and no nonce record is consumed. *)
C26_PostOnlyWithOutput ==
    [][/\ client'.calls.post > 0
            => /\ client'.output # <<>>
               /\ Complete(client'.output[1])
               /\ client'.calls.connect = 1
               /\ client'.calls.sign = 1
       /\ (client'.result # <<>> /\ client'.result[1] \in EarlyFailures)
            => /\ client'.calls.post = 0
               /\ client'.output = <<>>
       /\ req'["r1"].pc # "idle" => client'.calls.post > 0
       /\ store' # store
            => (auth'.pc = "stored" \/ client.calls.post > 0)]_vars

C26_Witness ==
    /\ client.result = <<Failure(NoSignInResult)>>
    /\ client.input # <<>>
    /\ client.input[1].nonce \in DOMAIN store

(* A callback with the given body for challenge c on host h *)
Request(body, c, h) == [IdleReq EXCEPT !.body = body, !.jar = <<c>>, !.host = h]

(* C27: when the callback of the page is about to verify, for the
   challenge of its cookie and every key the payload of the signMessage
   fallback gets the response the payload of the native signIn gets, at
   every time and on every host: both pass the required fields check, the
   checks answer the same, and they accept on the host of the challenge
   before its expiry. *)
C27_FallbackEquivalence ==
    req["r1"].pc = "verify"
    => \A c \in {req["r1"].jar[1]} : \A k \in Keys : \A h \in Hosts : \A t \in 0..MaxTime :
        /\ Complete(FallbackOutput(c, k)) <=> Complete(Honest(c, k))
        /\ Checks(Request(FallbackOutput(c, k), c, h), t)
             = Checks(Request(Honest(c, k), c, h), t)
        /\ (h = c.domain /\ t <= DateParse(c.expirationTime))
             => Checks(Request(FallbackOutput(c, k), c, h), t) = NoResp

C27_Witness ==
    /\ client.features = {"solana:signMessage"}
    /\ req["r1"].pc = "success"
    /\ req["r1"].body = FallbackOutput(client.input[1], UserKey)

(* The signature of the payload is one of its key over its message *)
SignatureGood(q) ==
    Ed25519Verify(q.body.signature, q.body.signedMessage, q.body.publicKey)

(* C28 as stated: a properly signed message with a notBefore field that is
   processed before that time fails with 'Message not yet valid'. *)
C28_NotBeforeEnforced ==
    [][\A r \in Req :
          (/\ Steps(r, "verify")
           /\ Parsed(req[r]).parsed
           /\ Parsed(req[r]).notBefore # Undefined
           /\ SignatureGood(req[r])
           /\ now < DateParse(Parsed(req[r]).notBefore))
          => req'[r] = Done(Error(401, "Message not yet valid"))]_vars

(* C28 amended: the challenge never has a notBefore field, so a signed
   message that carries one differs from the challenge and fails with
   'Signature verification failed' at every time; it is never accepted,
   'Message not yet valid' is never the answer, and a message without the
   field never fails the notBefore check. *)
C28_NotBeforeRejected ==
    [][\A r \in Req :
          Steps(r, "verify")
          => LET q == req[r] IN
             /\ (Parsed(q).parsed /\ Parsed(q).notBefore # Undefined
                   /\ ~VerifyThrows(Input(q), Output(q)))
                  => req'[r] = Done(Error(401, "Signature verification failed"))
             /\ req'[r].resp # Error(401, "Message not yet valid")
             /\ req'[r].pc = "success" => Parsed(q).notBefore = Undefined]_vars

C28_Witness ==
    \E r \in Req :
        /\ req[r].pc = "verify"
        /\ Parsed(req[r]).parsed
        /\ Parsed(req[r]).notBefore # Undefined
        /\ SignatureGood(req[r])
        /\ now < DateParse(Parsed(req[r]).notBefore)

(* The order of the positions of a callback *)
Rank(pc) ==
    CASE pc = "idle" -> 0 [] pc = "get" -> 1 [] pc = "remove" -> 2
      [] pc = "verify" -> 3 [] pc = "success" -> 4 [] pc = "respond" -> 5
      [] pc = "done" -> 6

(* C29: one connectAndSign makes at most one connect call, one signing
   call and one POST, each counted when it is made; one callback makes its
   lookup, its removal and its call of session completion at most once, in
   that order; after a failure nothing is called until the user clicks. *)
C29_NoRetry ==
    [][/\ client'.calls.connect <= 1
       /\ client'.calls.sign <= 1
       /\ client'.calls.post <= 1
       /\ \A r \in Req :
             req'[r] # req[r]
             => \/ Rank(req'[r].pc) > Rank(req[r].pc)
                \/ req[r].pc = "done" /\ req'[r] = IdleReq
       /\ (client.pc = "idle" /\ client'.calls # client.calls)
            => \/ client'.pc = "connect" /\ client'.calls.connect = 1
               \/ client'.nav
       /\ (client.pc = "idle" /\ ~client'.nav) => req' = req]_vars

C29_Witness ==
    /\ client.result # <<>>
    /\ ~client.result[1].success
    /\ client.calls = [connect |-> 1, sign |-> 1, post |-> 1]

(* C30: a wallet call that settles after connectAndSign has reported its
   timeout changes nothing: no signing call, no POST, no navigation, and
   the result that was returned stays. *)
C30_LateResultsIgnored ==
    [][(client'.late # client.late /\ client'.late \subseteq client.late
          /\ ~client'.nav)
         => /\ client' = [client EXCEPT !.late = client'.late]
            /\ req' = req
            /\ store' = store]_vars

C30_Witness ==
    /\ client.result = <<Failure(SignInTimedOut)>>
    /\ client.late = {}

(* The response of the callback is one the page may navigate on *)
ServerSuccess(resp) ==
    /\ resp.status \in 200..299
    /\ "success" \in DOMAIN resp
    /\ resp.success = TRUE
    /\ "redirectUrl" \in DOMAIN resp

(* C31: the page leaves for another URL only when the response of the
   callback has an OK status and a body with success true, and the URL is
   the redirectUrl of that response; on every other response and on a
   failed fetch it stays and shows an error. *)
C31_NavigationOnlyOnSuccess ==
    [][/\ (client.location = "page" /\ client'.location # "page")
            => /\ client.pc = "fetch"
               /\ req["r1"].pc = "done"
               /\ ServerSuccess(req["r1"].resp)
               /\ client'.location = req["r1"].resp.redirectUrl
       /\ (client.pc = "fetch" /\ client'.pc = "idle" /\ ~client'.nav
             /\ ~(req["r1"].pc = "done" /\ ServerSuccess(req["r1"].resp)))
            => /\ client'.location = "page"
               /\ client'.error # <<>>
               /\ ~client'.result[1].success]_vars

C31_Witness ==
    /\ client.location = RedirectUrl
    /\ client.result = <<Success(RedirectUrl)>>

(* C33: the nonce record a callback deletes is the record of the nonce in
   the signed message it was sent: a signature over challenge A posted with
   the cookie of challenge B does not delete the record of B. *)
C33_ConsumesSignedNonce ==
    [][\A r \in Req :
          (Steps(r, "remove") /\ Parsed(req[r]).parsed)
          => \A n \in DOMAIN store \ DOMAIN store' :
                n = Parsed(req[r]).nonce]_vars

(* C35: every nonce record was created by GET /authorize, has been located
   by no callback but the one that is about to remove it, and is within its
   time to live; records appear only by issuance, go only by the removal of
   the callback that found them or at the end of their time to live, and
   no callback renews them. *)
C35_NonceStoreInvariant ==
    [][/\ \A n \in DOMAIN store' :
             /\ store'[n].id < nextId'
             /\ now' <= store'[n].ttlEnd
             /\ \/ store'[n].hits = 0
                \/ /\ store'[n].hits = 1
                   /\ \E r \in Req : /\ req'[r].pc = "remove"
                                      /\ req'[r].found = store'[n].id
       /\ \A n \in DOMAIN store' \ DOMAIN store : auth'.pc = "stored"
       /\ \A n \in DOMAIN store \ DOMAIN store' :
             \/ \E r \in Req : Steps(r, "remove") /\ req[r].found = store[n].id
             \/ now >= store[n].ttlEnd
       /\ \A n \in DOMAIN store \cap DOMAIN store' :
             (store'[n].ttlEnd # store[n].ttlEnd \/ store'[n].id # store[n].id)
             => auth'.pc = "stored"]_vars

(* C34: from the click on a wallet until connectAndSign has returned, every
   wallet button on the page is disabled, also after the list has been
   drawn again for a wallet-change notification. *)
C34_OneInFlight ==
    client.pc # "idle" => (client.disabled \/ client.list # "wallets")

(* connectAndSign returns the cancellation error in this step *)
ReportsCancellation == client'.result = <<Failure(SignInCancelled)>>

(* The wallet call connectAndSign waits for is rejected with message m *)
WalletRejects(m) ==
    \/ \E o \in ConnectOutcomes :
          o.kind = "rejected" /\ o.message = m /\ WalletConnectSettles(o)
    \/ /\ client.pc = "signIn"
       /\ \E o \in SignInOutcomes(client.input[1]) :
             o.kind = "rejected" /\ o.message = m /\ WalletSignInSettles(o)
    \/ \E o \in SignMessageOutcomes :
          o.kind = "rejected" /\ o.message = m /\ WalletSignMessageSettles(o)

(* C38: connectAndSign returns 'Sign-in was cancelled' when and only when
   the user has refused the connect or signing call: every refusal of the
   user is reported so, and a timeout, a wallet without signing, a wallet
   failure and a failed or rejected callback request never are. *)
C38_CancellationClassification ==
    [][/\ \A m \in UserRejections : WalletRejects(m) => ReportsCancellation
       /\ (client.pc # "idle" /\ client'.pc = "idle" /\ ~client'.nav
             /\ ReportsCancellation)
            => \E m \in UserRejections : WalletRejects(m)]_vars

(* The ping loop runs: an alarm is set or the alarm handler is at work *)
Running == keepAlive.alarm # <<>> \/ keepAlive.pc = "ping"

(* C32: every run of alarm() ends with the alarm set 10 s ahead, whether
   the ping answered or threw; once an alarm has run there is an alarm
   pending whenever the handler is not at work; and while the loop runs
   another ping always follows. *)
C32_KeepAliveLoop ==
    /\ [][(keepAlive.pc = "ping" /\ keepAlive'.pc = "idle")
            => keepAlive'.alarm = <<10000>>]_vars
    /\ [](keepAlive.ping # <<>> => Running)
    /\ \A b \in BOOLEAN :
          (Running /\ keepAlive.parity = b) ~> (keepAlive.parity # b)

C32_Witness ==
    /\ keepAlive.ping = <<"throws">>
    /\ keepAlive.pc = "idle"
    /\ keepAlive.alarm = <<PING_INTERVAL_MS>>

(* C36: a fetch to the KeepAlive object sets the alarm 10 s ahead and
   answers 'started' when no alarm is set; when one is set it answers
   'already_running' with the time of that alarm and leaves it as it is; it
   touches nothing else of the object. *)
C36_StartIdempotent ==
    [][(KeepAliveFetch \/ keepAlive'.response # keepAlive.response)
         => /\ keepAlive'.pc = keepAlive.pc
            /\ keepAlive'.ping = keepAlive.ping
            /\ IF keepAlive.alarm = <<>>
                  THEN /\ keepAlive'.alarm = <<10000>>
                       /\ keepAlive'.response[1].status = "started"
                  ELSE /\ keepAlive'.alarm = keepAlive.alarm
                       /\ keepAlive'.response[1].status = "already_running"
                       /\ keepAlive'.response[1].nextAlarm
                            = keepAlive.alarm[1]]_vars

C36_Witness ==
    /\ keepAlive.alarm = <<5000>>
    /\ keepAlive.response = <<[status |-> "already_running",
                               nextAlarm |-> 5000]>>

(* The host names of RedirectHosts the rule lets through *)
TrustedHosts ==
    {Localhost, Loopback, AdlonymousTech, OtherHosts.subdomain, KernuxOrg,
     OtherHosts.subdomain2, WorkersDev}

(* C37: allow answers true exactly for the redirect URIs whose host name is
   localhost, 127.0.0.1, a trusted domain or a name that ends with a dot and
   a trusted domain; a name that has a trusted domain after other letters
   without the dot, or before other labels, gets false. *)
C37_AllowRule ==
    decision # <<>>
    => (decision[1].allowed
          <=> toLowerCase(decision[1].request.host) \in TrustedHosts)

C37_Witness ==
    /\ decision # <<>>
    /\ decision[1].request.host = OtherHosts.glued
    /\ decision[1].request.userinfo = AdlonymousTech
    /\ ~decision[1].allowed

====
